---- MODULE Spec2Model ----
(***************************************************************************)
(* A model of the riscv-vm emulator core: the register file, the flat      *)
(* memory, the program loader, the fetch/decode/execute step and the       *)
(* syscall bridge, translated from src/src/cpu.rs, src/src/utils.rs,       *)
(* src/src/monitored_memory.rs and the driver loop of src/src/main.rs.     *)
(*                                                                         *)
(* Number representation.  TLC's integers are 32-bit, so a u64 is kept as  *)
(* four 16-bit limbs <<l0, l1, l2, l3>> (least significant first) and all  *)
(* 64-bit arithmetic is done limb-wise modulo 2^64.  A u32 instruction     *)
(* word is kept as two 16-bit halves <<lo, hi>>.  An i32 (exit_code) fits  *)
(* a TLC integer and is kept as one.                                       *)
(***************************************************************************)
EXTENDS Integers, Sequences, FiniteSets, TLC

VARIABLES
    gprs,             \* Cpu.gprs: [0..31 -> u64]
    pc,               \* Cpu.pc: u64
    memory,           \* Cpu.memory: sequence of bytes, memory[i + 1] is offset i
    is_running,       \* Cpu.is_running
    exit_code,        \* Cpu.exit_code: i32
    cpu_events,       \* everything sent on the cpu_events channel, in order
    panicked,         \* "" while the process lives, else the panic that ended it
    overflow_checks,  \* the build profile: TRUE = debug (overflow panics), FALSE = release (wraps)
    loads,            \* number of load_program calls made so far
    load_result,      \* what the last load_program call returned: "none", "Ok", "Err"
    last_op,          \* history: the last step taken: "new", "load_program", "tick", ...
    last_instruction, \* history: the word the last tick fetched (the PARSING_INSTRUCTION trace)
    prev,             \* history: the Cpu as it was before the last call
    last_program,     \* history: the image handed to the last load_program call
    channel,          \* the events in flight: sent and not yet received
    app_is_running,   \* App.is_running
    text_buffer,      \* App.text_buffer, as the pieces pushed onto it
    app_pc,           \* where App::run stands: "frame" or inside the try_iter loop, "polling"
    app_events,       \* history: the events App::run has matched, in order
    sign_extended,    \* the last sign-extension call: its width, arguments and result
    allocator,        \* a MonitoredAllocator: its limit and its allocated count
    callers           \* the threads using the allocator: where each stands in its call

cpu_vars == <<gprs, pc, memory, is_running, exit_code, cpu_events, panicked>>
app_vars == <<app_is_running, text_buffer, app_pc, app_events>>
alloc_vars == <<allocator, callers>>

vars == <<gprs, pc, memory, is_running, exit_code, cpu_events, panicked,
          overflow_checks, loads, load_result, last_op, last_instruction, prev,
          last_program, channel, app_is_running, text_buffer, app_pc, app_events,
          sign_extended, allocator, callers>>

-----------------------------------------------------------------------------
(* Bounds of the model. *)

\* Size of the guest memory in bytes (Cpu::new's memory_size argument).
MemSize == 48

\* How many times load_program may be called in one run.
MaxLoads == 2

\* The limit of the allocator in bytes (MonitoredAllocator::new's argument).
AllocLimit == 4

\* The largest layout.size() of a request, in bytes.
MaxSize == 3

\* How many threads share the allocator.
MaxThreads == 2

-----------------------------------------------------------------------------
(* Program constants. *)

WORD_SIZE == 4
ECALL_WRITE == 64
ECALL_EXIT == 93
a0 == 10
a1 == 11
a2 == 12
a7 == 17

-----------------------------------------------------------------------------
(* Fixed-width arithmetic. *)

\* a limb holds 16 bits; HalfLimb is a limb's top bit
Limb == 2 ^ 16
HalfLimb == 2 ^ 15

Byte == 0..255

U64Zero == <<0, 0, 0, 0>>

\* n as u64, for 0 <= n < 2^31
U64FromNat(n) == <<n % Limb, n \div Limb, 0, 0>>

\* v fits a non-negative TLC integer
IsSmall(v) == v[3] = 0 /\ v[4] = 0 /\ v[2] < HalfLimb

\* the value of a small v
NatOf(v) == v[1] + v[2] * Limb

\* u64 comparison with a natural number n < 2^31:  v > n,  v >= n
GtNat(v, n) == ~IsSmall(v) \/ NatOf(v) > n
GeNat(v, n) == ~IsSmall(v) \/ NatOf(v) >= n

\* a + b modulo 2^64 (u64::wrapping_add, and i64 wrapping add on the same bits)
WrapAdd64(a, b) ==
    LET s0 == a[1] + b[1]
        s1 == a[2] + b[2] + (s0 \div Limb)
        s2 == a[3] + b[3] + (s1 \div Limb)
        s3 == a[4] + b[4] + (s2 \div Limb)
    IN  <<s0 % Limb, s1 % Limb, s2 % Limb, s3 % Limb>>

\* the unsigned sum a + b does not fit 64 bits
CarryOut64(a, b) ==
    LET s0 == a[1] + b[1]
        s1 == a[2] + b[2] + (s0 \div Limb)
        s2 == a[3] + b[3] + (s1 \div Limb)
        s3 == a[4] + b[4] + (s2 \div Limb)
    IN  s3 >= Limb

\* bit 63, the sign of the value read as i64
Neg64(v) == v[4] >= HalfLimb

\* the signed sum of a and b read as i64 does not fit an i64
SignedOverflow64(a, b) ==
    /\ Neg64(a) = Neg64(b)
    /\ Neg64(WrapAdd64(a, b)) # Neg64(a)

\* `v as i32`: the low 32 bits, as two limbs
LowWord(v) == <<v[1], v[2]>>

Neg32(w) == w[2] >= HalfLimb

\* a + b modulo 2^32 on two-limb words
WrapAdd32(a, b) ==
    LET s0 == a[1] + b[1]
        s1 == a[2] + b[2] + (s0 \div Limb)
    IN  <<s0 % Limb, s1 % Limb>>

SignedOverflow32(a, b) ==
    /\ Neg32(a) = Neg32(b)
    /\ Neg32(WrapAdd32(a, b)) # Neg32(a)

\* `(w: i32) as u64`: a signed source is sign-extended to the wider type
I32AsU64(w) ==
    LET ext == IF Neg32(w) THEN Limb - 1 ELSE 0
    IN  <<w[1], w[2], ext, ext>>

\* `(v: u64) as i32` as a TLC integer in -2^31 .. 2^31 - 1
U64AsI32(v) ==
    IF v[2] >= HalfLimb
    THEN (v[2] - Limb) * Limb + v[1]
    ELSE v[2] * Limb + v[1]

\* `(w: u32) as u64`, `(b: u8) as u64`: an unsigned source is zero-extended
U32AsU64(w) == <<w[1], w[2], 0, 0>>
U8AsU64(b) == <<b, 0, 0, 0>>

\* the 64 bits of v, bit 0 first
ToBits(v) == [i \in 0..63 |-> (v[(i \div 16) + 1] \div (2 ^ (i % 16))) % 2]

RECURSIVE BitsToNat(_, _, _)
BitsToNat(b, lo, n) == IF n = 0 THEN 0 ELSE b[lo] + 2 * BitsToNat(b, lo + 1, n - 1)

FromBits(b) == <<BitsToNat(b, 0, 16), BitsToNat(b, 16, 16),
                 BitsToNat(b, 32, 16), BitsToNat(b, 48, 16)>>

\* `v << k` on u64, 0 <= k <= 63: the bits shifted out are dropped
Shl64(v, k) ==
    LET b == ToBits(v)
    IN  FromBits([i \in 0..63 |-> IF i >= k THEN b[i - k] ELSE 0])

\* `(v as i64) >> k`, 0 <= k <= 63: arithmetic shift, bit 63 is replicated
Sar64(v, k) ==
    LET b == ToBits(v)
    IN  FromBits([i \in 0..63 |-> IF i + k <= 63 THEN b[i + k] ELSE b[63]])

\* utils.rs: sign_extend_u64_to_i64(value, size); SOURCE_SIZE is 64.
\* The result is the i64's bit pattern; "assert" when the size assertion fails.
SOURCE_SIZE == 8 * 8

sign_extend_u64_to_i64(value, size) ==
    IF size > 0 /\ size <= SOURCE_SIZE
    THEN Sar64(Shl64(value, SOURCE_SIZE - size), SOURCE_SIZE - size)
    ELSE "assert"

\* The macro impl_sign_extend for a source type of any width; a value of
\* `width` bits is the function from bit positions 0..width-1 to {0, 1}.

\* `value << k` on a width-bit unsigned: the bits shifted out are dropped
ShlBits(width, value, k) ==
    [i \in 0..(width - 1) |-> IF i >= k THEN value[i - k] ELSE 0]

\* a right shift on the unsigned type: zeros are shifted in
SarBits_logical(width, value, k) ==
    [i \in 0..(width - 1) |-> IF i + k <= width - 1 THEN value[i + k] ELSE 0]

\* `(value as $target_type) >> k`: the shift of the signed type replicates
\* the top bit
SarBits(width, value, k) ==
    [i \in 0..(width - 1) |-> IF i + k <= width - 1 THEN value[i + k] ELSE value[width - 1]]

\* utils.rs 14-25 for a source type of `width` bits (SOURCE_SIZE = width)
impl_sign_extend(width, value, size) ==
    IF size > 0 /\ size <= width
    THEN [ panicked |-> FALSE,
           bits |-> SarBits(width, ShlBits(width, value, width - size), width - size) ]
    ELSE [ panicked |-> TRUE, bits |-> value ]

-----------------------------------------------------------------------------
(* Instruction words. *)

\* u32::from_le_bytes(bytes): two 16-bit halves <<lo, hi>>
u32_from_le_bytes(bytes) == <<bytes[1] + 256 * bytes[2], bytes[3] + 256 * bytes[4]>>

\* (instruction >> sh) & (2^n - 1), for sh + n <= 32 and n <= 20
Field(instruction, sh, n) ==
    IF sh >= 16
    THEN (instruction[2] \div (2 ^ (sh - 16))) % (2 ^ n)
    ELSE LET lowpart == instruction[1] \div (2 ^ sh)
             hibits == IF n + sh > 16 THEN n + sh - 16 ELSE 0
         IN  (lowpart + (instruction[2] % (2 ^ hibits)) * (2 ^ (16 - sh))) % (2 ^ n)

Opcode(instruction) == Field(instruction, 0, 7)
Rd(instruction) == Field(instruction, 7, 5)
Funct3(instruction) == Field(instruction, 12, 3)
Rs1(instruction) == Field(instruction, 15, 5)
Imm12(instruction) == Field(instruction, 20, 12)

-----------------------------------------------------------------------------
(* Flat memory: monitored_memory.rs.  Every accessor is a bounds-checked    *)
(* slice index; a violation panics.                                        *)

NoPanic == ""

\* MonitoredMemory::size
size(mem) == Len(mem)

\* u64 comparison a <= b, most significant limb first
Le64(a, b) ==
    \/ a[4] < b[4]
    \/ a[4] = b[4] /\ a[3] < b[3]
    \/ a[4] = b[4] /\ a[3] = b[3] /\ a[2] < b[2]
    \/ a[4] = b[4] /\ a[3] = b[3] /\ a[2] = b[2] /\ a[1] <= b[1]

\* Index<usize>: memory[index] is defined iff index < len
IndexInBounds(mem, index) == ~GeNat(index, size(mem))

IndexByte(mem, index) == mem[NatOf(index) + 1]

\* Index<Range<usize>>: memory[start..end] is defined iff start <= end <= len
RangeInBounds(mem, start, end) == Le64(start, end) /\ ~GtNat(end, size(mem))

IndexRange(mem, start, end) == SubSeq(mem, NatOf(start) + 1, NatOf(end))

-----------------------------------------------------------------------------
(* The Cpu as a record, and the handlers of cpu.rs as functions on it.      *)

Panic(c, message) == [c EXCEPT !.panicked = message]

SetReg(c, rd, value) == [c EXCEPT !.gprs[rd] = value]

\* a send that delivers the event twice
Send_twice(c, event) == [c EXCEPT !.cpu_events = Append(Append(@, event), event)]

\* cpu_events.send(event): the channel is unbounded and its receiver lives
\* as long as the consumer loop, so a send always succeeds
Send(c, event) == [c EXCEPT !.cpu_events = Append(@, event)]

WriteEvent(text) == [type |-> "Write", text |-> text]
ExitEvent(code) == [type |-> "Exit", exit_code |-> code]

\* handle_load_upper_immediate without the early return for rd = 0
handle_load_upper_immediate_writes_x0(c, instruction) ==
    LET rd == Field(instruction, 7, 5)
        imm == Field(instruction, 0, 20)
    IN  SetReg(c, rd, Shl64(U64FromNat(imm), 12))

\* cpu.rs 150-171
handle_load_upper_immediate(c, instruction) ==
    LET rd == Field(instruction, 7, 5)
        imm == Field(instruction, 0, 20)          \* instruction & 0xFFFFF
        reg_value == Shl64(U64FromNat(imm), 12)
    IN  IF rd = 0 THEN c ELSE SetReg(c, rd, reg_value)

\* cpu.rs 186-215
handle_addi(c, instruction) ==
    LET rd == Field(instruction, 7, 5)
        rs1 == Field(instruction, 15, 5)
        imm == Field(instruction, 20, 12)
        sext_imm == sign_extend_u64_to_i64(U64FromNat(imm), 20)
    IN  IF rd = 0 THEN c
        ELSE IF overflow_checks /\ SignedOverflow64(c.gprs[rs1], sext_imm)
             THEN Panic(c, "attempt to add with overflow")
             ELSE SetReg(c, rd, WrapAdd64(c.gprs[rs1], sext_imm))

\* cpu.rs 174-182
handle_i_type_instruction(c, instruction) ==
    LET funct3 == Field(instruction, 12, 3)
    IN  IF funct3 = 0 THEN handle_addi(c, instruction)
        ELSE Panic(c, "Unimplemented I-Type instruction")

\* handle_load_byte reading the byte as i8, so that it is sign-extended
handle_load_byte_signed(c, instruction) ==
    LET rd == Field(instruction, 7, 5)
        rs1 == Field(instruction, 15, 5)
        imm == Field(instruction, 20, 12)
        sext_imm == sign_extend_u64_to_i64(U64FromNat(imm), 12)
        effective_address == WrapAdd64(c.gprs[rs1], sext_imm)
    IN  IF rd = 0 THEN c
        ELSE IF overflow_checks /\ SignedOverflow64(c.gprs[rs1], sext_imm)
             THEN Panic(c, "attempt to add with overflow")
        ELSE IF ~IndexInBounds(c.memory, effective_address)
             THEN Panic(c, "index out of bounds")
        ELSE SetReg(c, rd, sign_extend_u64_to_i64(
                               U8AsU64(IndexByte(c.memory, effective_address)), 8))

\* cpu.rs 228-264
handle_load_byte(c, instruction) ==
    LET rd == Field(instruction, 7, 5)
        rs1 == Field(instruction, 15, 5)
        imm == Field(instruction, 20, 12)
        sext_imm == sign_extend_u64_to_i64(U64FromNat(imm), 12)
        effective_address == WrapAdd64(c.gprs[rs1], sext_imm)
    IN  IF rd = 0 THEN c
        ELSE IF overflow_checks /\ SignedOverflow64(c.gprs[rs1], sext_imm)
             THEN Panic(c, "attempt to add with overflow")
        ELSE IF ~IndexInBounds(c.memory, effective_address)
             THEN Panic(c, "index out of bounds")
        ELSE SetReg(c, rd, U8AsU64(IndexByte(c.memory, effective_address)))

\* handle_load_word with the address reduced modulo the memory size
handle_load_word_wraps(c, instruction) ==
    LET rd == Field(instruction, 7, 5)
        rs1 == Field(instruction, 15, 5)
        imm == Field(instruction, 20, 12)
        sext_imm == sign_extend_u64_to_i64(U64FromNat(imm), 12)
        effective_address == WrapAdd64(c.gprs[rs1], sext_imm)
        wrapped == effective_address[1] % (size(c.memory) - WORD_SIZE + 1)
        word_bytes == SubSeq(c.memory, wrapped + 1, wrapped + WORD_SIZE)
    IN  IF rd = 0 THEN c
        ELSE SetReg(c, rd, U32AsU64(u32_from_le_bytes(word_bytes)))

\* handle_load_word reading the word as i32, so that it is sign-extended
handle_load_word_signed(c, instruction) ==
    LET rd == Field(instruction, 7, 5)
        rs1 == Field(instruction, 15, 5)
        imm == Field(instruction, 20, 12)
        sext_imm == sign_extend_u64_to_i64(U64FromNat(imm), 12)
        effective_address == WrapAdd64(c.gprs[rs1], sext_imm)
        end_address == WrapAdd64(effective_address, U64FromNat(4))
    IN  IF rd = 0 THEN c
        ELSE IF overflow_checks /\ SignedOverflow64(c.gprs[rs1], sext_imm)
             THEN Panic(c, "attempt to add with overflow")
        ELSE IF overflow_checks /\ CarryOut64(effective_address, U64FromNat(4))
             THEN Panic(c, "attempt to add with overflow")
        ELSE IF ~RangeInBounds(c.memory, effective_address, end_address)
             THEN Panic(c, "slice index out of range")
        ELSE SetReg(c, rd, I32AsU64(u32_from_le_bytes(
                               IndexRange(c.memory, effective_address, end_address))))

\* cpu.rs 266-306
handle_load_word(c, instruction) ==
    LET rd == Field(instruction, 7, 5)
        rs1 == Field(instruction, 15, 5)
        imm == Field(instruction, 20, 12)
        sext_imm == sign_extend_u64_to_i64(U64FromNat(imm), 12)
        effective_address == WrapAdd64(c.gprs[rs1], sext_imm)
        end_address == WrapAdd64(effective_address, U64FromNat(4))
    IN  IF rd = 0 THEN c
        ELSE IF overflow_checks /\ SignedOverflow64(c.gprs[rs1], sext_imm)
             THEN Panic(c, "attempt to add with overflow")
        ELSE IF overflow_checks /\ CarryOut64(effective_address, U64FromNat(4))
             THEN Panic(c, "attempt to add with overflow")
        ELSE IF ~RangeInBounds(c.memory, effective_address, end_address)
             THEN Panic(c, "slice index out of range")
        ELSE SetReg(c, rd, U32AsU64(u32_from_le_bytes(
                               IndexRange(c.memory, effective_address, end_address))))

\* cpu.rs 217-226
handle_other_i_type_instruction(c, instruction) ==
    LET funct3 == Field(instruction, 12, 3)
    IN  IF funct3 = 0 THEN handle_load_byte(c, instruction)
        ELSE IF funct3 = 2 THEN handle_load_word(c, instruction)
        ELSE Panic(c, "Unimplemented other I-Type instruction")

\* cpu.rs 316-342
handle_addiw(c, instruction) ==
    LET rd == Field(instruction, 7, 5)
        rs1 == Field(instruction, 15, 5)
        imm == Field(instruction, 20, 12)
        sext_imm == sign_extend_u64_to_i64(U64FromNat(imm), 20)
        lhs == LowWord(c.gprs[rs1])               \* self.gprs[rs1] as i32
        rhs == LowWord(sext_imm)                  \* sext_imm as i32
    IN  IF rd = 0 THEN c
        ELSE IF overflow_checks /\ SignedOverflow32(lhs, rhs)
             THEN Panic(c, "attempt to add with overflow")
             ELSE SetReg(c, rd, I32AsU64(WrapAdd32(lhs, rhs)))

\* cpu.rs 308-314
handle_op32_type_instruction(c, instruction) ==
    LET funct3 == Field(instruction, 12, 3)
    IN  IF funct3 = 0 THEN handle_addiw(c, instruction)
        ELSE Panic(c, "Unimplemented OP32 instruction")

-----------------------------------------------------------------------------
(* The syscall bridge. *)

\* String::from_utf8 accepts exactly the well-formed UTF-8 byte sequences
\* (cpu.rs 406-407); the String it returns holds the same bytes.
Cont(b) == b >= 128 /\ b <= 191

RECURSIVE IsValidUtf8(_)
IsValidUtf8(bytes) ==
    IF Len(bytes) = 0 THEN TRUE
    ELSE LET b == bytes[1]
             n == Len(bytes)
             rest(k) == SubSeq(bytes, k + 1, n)
         IN  IF b <= 127 THEN IsValidUtf8(rest(1))
             ELSE IF b >= 194 /\ b <= 223
                  THEN n >= 2 /\ Cont(bytes[2]) /\ IsValidUtf8(rest(2))
             ELSE IF b >= 224 /\ b <= 239
                  THEN /\ n >= 3
                       /\ Cont(bytes[2]) /\ Cont(bytes[3])
                       /\ (b = 224 => bytes[2] >= 160)
                       /\ (b = 237 => bytes[2] <= 159)
                       /\ IsValidUtf8(rest(3))
             ELSE IF b >= 240 /\ b <= 244
                  THEN /\ n >= 4
                       /\ Cont(bytes[2]) /\ Cont(bytes[3]) /\ Cont(bytes[4])
                       /\ (b = 240 => bytes[2] >= 144)
                       /\ (b = 244 => bytes[2] <= 143)
                       /\ IsValidUtf8(rest(4))
             ELSE FALSE

\* handle_ecall_write accepting only stdout and stderr as file descriptor
handle_ecall_write_checks_fd(c) ==
    LET fd == c.gprs[a0][1] % 32
        text_ptr == c.gprs[a1]
        text_len == c.gprs[a2]
        text_end == WrapAdd64(text_ptr, text_len)
    IN  IF c.gprs[a7] # U64FromNat(ECALL_WRITE)
        THEN Panic(c, "ecall write should have a7 = ECALL_WRITE")
        ELSE IF fd # 1 /\ fd # 2
             THEN Panic(c, "Unsupported file descriptor")
        ELSE IF overflow_checks /\ CarryOut64(text_ptr, text_len)
             THEN Panic(c, "attempt to add with overflow")
        ELSE IF ~RangeInBounds(c.memory, text_ptr, text_end)
             THEN Panic(c, "slice index out of range")
        ELSE IF ~IsValidUtf8(IndexRange(c.memory, text_ptr, text_end))
             THEN Panic(c, "Failed to convert bytes to String")
        ELSE Send(c, WriteEvent(IndexRange(c.memory, text_ptr, text_end)))

\* handle_ecall_write sending the part of the buffer that lies in memory
handle_ecall_write_truncates(c) ==
    LET text_ptr == c.gprs[a1]
        text_len == c.gprs[a2]
        text_end == WrapAdd64(text_ptr, text_len)
        memory_end == U64FromNat(size(c.memory))
        clamped_end == IF Le64(text_end, memory_end) THEN text_end ELSE memory_end
    IN  IF c.gprs[a7] # U64FromNat(ECALL_WRITE)
        THEN Panic(c, "ecall write should have a7 = ECALL_WRITE")
        ELSE IF overflow_checks /\ CarryOut64(text_ptr, text_len)
             THEN Panic(c, "attempt to add with overflow")
        ELSE IF ~RangeInBounds(c.memory, text_ptr, clamped_end)
             THEN Panic(c, "slice index out of range")
        ELSE IF ~IsValidUtf8(IndexRange(c.memory, text_ptr, clamped_end))
             THEN Panic(c, "Failed to convert bytes to String")
        ELSE Send(c, WriteEvent(IndexRange(c.memory, text_ptr, clamped_end)))

\* cpu.rs 390-413
handle_ecall_write(c) ==
    LET fd == c.gprs[a0][1] % 32                  \* (gprs[a0] & 0x1f), never used
        text_ptr == c.gprs[a1]
        text_len == c.gprs[a2]
        text_end == WrapAdd64(text_ptr, text_len)
    IN  IF c.gprs[a7] # U64FromNat(ECALL_WRITE)
        THEN Panic(c, "ecall write should have a7 = ECALL_WRITE")
        ELSE IF overflow_checks /\ CarryOut64(text_ptr, text_len)
             THEN Panic(c, "attempt to add with overflow")
        ELSE IF ~RangeInBounds(c.memory, text_ptr, text_end)
             THEN Panic(c, "slice index out of range")
        ELSE IF ~IsValidUtf8(IndexRange(c.memory, text_ptr, text_end))
             THEN Panic(c, "Failed to convert bytes to String")
        ELSE Send(c, WriteEvent(IndexRange(c.memory, text_ptr, text_end)))

\* handle_ecall_exit keeping only the low 8 bits of a0, as a process status
handle_ecall_exit_status_byte(c) ==
    LET code == c.gprs[a0][1] % 256
    IN  IF c.gprs[a7] # U64FromNat(ECALL_EXIT)
        THEN Panic(c, "ecall exit should have a7 = ECALL_EXIT")
        ELSE Send([c EXCEPT !.is_running = FALSE, !.exit_code = code],
                  ExitEvent(code))

\* cpu.rs 415-431
handle_ecall_exit(c) ==
    LET code == U64AsI32(c.gprs[a0])
    IN  IF c.gprs[a7] # U64FromNat(ECALL_EXIT)
        THEN Panic(c, "ecall exit should have a7 = ECALL_EXIT")
        ELSE Send([c EXCEPT !.is_running = FALSE, !.exit_code = code],
                  ExitEvent(code))

\* handle_ecall that also takes the earlier ABI's exit number 10
handle_ecall_both_abis(c) ==
    IF c.gprs[a7] = U64FromNat(64) THEN handle_ecall_write(c)
    ELSE IF c.gprs[a7] = U64FromNat(93) THEN handle_ecall_exit(c)
    ELSE IF c.gprs[a7] = U64FromNat(10)
         THEN Send([c EXCEPT !.is_running = FALSE, !.exit_code = U64AsI32(c.gprs[a0])],
                   ExitEvent(U64AsI32(c.gprs[a0])))
    ELSE Panic(c, "Unimplemented ecall")

\* cpu.rs 379-388
handle_ecall(c) ==
    IF c.gprs[a7] = U64FromNat(64) THEN handle_ecall_write(c)
    ELSE IF c.gprs[a7] = U64FromNat(93) THEN handle_ecall_exit(c)
    ELSE Panic(c, "Unimplemented ecall")

\* an ebreak that stops the CPU, as a breakpoint would
handle_ebreak_halts(c) == [c EXCEPT !.is_running = FALSE]

\* cpu.rs 435-438
handle_ebreak(c) == c

\* a SYSTEM decoder that looks at bit 20 alone
handle_system_instruction_lenient(c, instruction) ==
    IF Field(instruction, 20, 1) = 0 THEN handle_ecall(c) ELSE handle_ebreak(c)

\* cpu.rs 344-372
handle_system_instruction(c, instruction) ==
    LET rd == Field(instruction, 7, 5)
        funct3 == Field(instruction, 12, 3)
        imm == Field(instruction, 20, 12)
    IN  IF rd # 0
        THEN Panic(c, "System instructions should not write to a destination register")
        ELSE IF funct3 # 0
             THEN Panic(c, "System instructions should have funct3 = 0b000")
        ELSE IF imm = 0 THEN handle_ecall(c)
        ELSE IF imm = 1 THEN handle_ebreak(c)
        ELSE Panic(c, "Unimplemented SYSTEM instruction")

-----------------------------------------------------------------------------
(* One fetch/decode/execute step: cpu.rs 108-146. *)

\* the match on the opcode, cpu.rs 134-141
Dispatch(c, instruction) ==
    LET opcode == Field(instruction, 0, 7)
    IN  IF opcode = 55 THEN handle_load_upper_immediate(c, instruction)
        ELSE IF opcode = 19 THEN handle_i_type_instruction(c, instruction)
        ELSE IF opcode = 115 THEN handle_system_instruction(c, instruction)
        ELSE IF opcode = 27 THEN handle_op32_type_instruction(c, instruction)
        ELSE IF opcode = 3 THEN handle_other_i_type_instruction(c, instruction)
        ELSE Panic(c, "Unimplemented opcode")

\* the bounds check of the fetch, cpu.rs 110-112: pc + WORD_SIZE > size
FetchEnd(c) == WrapAdd64(c.pc, U64FromNat(WORD_SIZE))

\* the word at pc, cpu.rs 114-126
Fetch(c) == u32_from_le_bytes(IndexRange(c.memory, c.pc, FetchEnd(c)))

\* a pc that stays on the exit ecall once the CPU has halted
AdvancePc_unless_halted(c) ==
    IF ~c.is_running THEN c
    ELSE IF overflow_checks /\ CarryOut64(c.pc, U64FromNat(WORD_SIZE))
         THEN Panic(c, "attempt to add with overflow")
    ELSE [c EXCEPT !.pc = WrapAdd64(c.pc, U64FromNat(WORD_SIZE))]

\* a tick that leaves pc where it was
AdvancePc_stays(c) == c

\* pc += WORD_SIZE, cpu.rs 143
AdvancePc(c) ==
    IF overflow_checks /\ CarryOut64(c.pc, U64FromNat(WORD_SIZE))
    THEN Panic(c, "attempt to add with overflow")
    ELSE [c EXCEPT !.pc = WrapAdd64(c.pc, U64FromNat(WORD_SIZE))]

\* tick with a fetch check that tests pc alone against the size
tick_checks_pc_only(c) ==
    IF overflow_checks /\ CarryOut64(c.pc, U64FromNat(WORD_SIZE))
    THEN Panic(c, "attempt to add with overflow")
    ELSE IF GtNat(c.pc, size(c.memory))
         THEN Panic(c, "Instruction address out of bounds")
    ELSE IF ~RangeInBounds(c.memory, c.pc, FetchEnd(c))
         THEN Panic(c, "slice index out of range")
    ELSE LET executed == Dispatch(c, Fetch(c))
         IN  IF executed.panicked # NoPanic THEN executed ELSE AdvancePc(executed)

\* cpu.rs 108-146
tick(c) ==
    IF overflow_checks /\ CarryOut64(c.pc, U64FromNat(WORD_SIZE))
    THEN Panic(c, "attempt to add with overflow")
    ELSE IF GtNat(FetchEnd(c), size(c.memory))
         THEN Panic(c, "Instruction address out of bounds")
    ELSE IF ~RangeInBounds(c.memory, c.pc, FetchEnd(c))
         THEN Panic(c, "slice index out of range")
    ELSE LET executed == Dispatch(c, Fetch(c))
         IN  IF executed.panicked # NoPanic THEN executed ELSE AdvancePc(executed)

-----------------------------------------------------------------------------
(* The program loader: cpu.rs 67-101.  goblin's Elf::parse is outside the   *)
(* repository; an image is given by what the parse yields: whether it       *)
(* parses, its class, its entry point and its program headers, next to the  *)
(* raw bytes of the file.  The entry point is a u64; the other header       *)
(* fields are small naturals here.                                          *)

PT_LOAD == 1
PT_NOTE == 4

\* a copy that lands one byte below its destination
CopyFromSlice_one_below(mem, start, data) ==
    [i \in 1..Len(mem) |->
        IF i >= start /\ i < start + Len(data) /\ i >= 1 THEN data[i - start + 1] ELSE mem[i]]

\* memory[start..end].copy_from_slice(data), for end - start = Len(data)
CopyFromSlice(mem, start, data) ==
    [i \in 1..Len(mem) |->
        IF i > start /\ i <= start + Len(data) THEN data[i - start] ELSE mem[i]]

\* the loop over the PT_LOAD headers from index i on, cpu.rs 73-96
RECURSIVE LoadSegments(_, _, _)
LoadSegments(c, program, i) ==
    IF i > Len(program.program_headers) THEN [cpu |-> c, result |-> "Ok"]
    ELSE LET phdr == program.program_headers[i]
             start_address == phdr.p_vaddr
             end_address == start_address + phdr.p_memsz
             data == SubSeq(program.bytes, phdr.p_offset + 1, phdr.p_offset + phdr.p_filesz)
         IN  IF phdr.p_type # PT_LOAD THEN LoadSegments(c, program, i + 1)
             ELSE IF end_address > size(c.memory)
                  THEN [cpu |-> c, result |-> "Err"]
             ELSE IF phdr.p_offset + phdr.p_filesz > Len(program.bytes)
                  THEN [cpu |-> Panic(c, "slice index out of range"), result |-> "none"]
             ELSE IF phdr.p_filesz # end_address - start_address
                  THEN [cpu |-> Panic(c, "source slice length does not match destination slice length"),
                        result |-> "none"]
             ELSE LoadSegments([c EXCEPT !.memory = CopyFromSlice(@, start_address, data)],
                               program, i + 1)

\* load_program restarting a halted CPU when the image loads
load_program_restarts(c, program) ==
    IF ~program.parses THEN [cpu |-> c, result |-> "Err"]
    ELSE IF ~program.is_64
         THEN [cpu |-> Panic(c, "Only 64-bit ELF files are supported"), result |-> "none"]
    ELSE LET loaded == LoadSegments(c, program, 1)
         IN  IF loaded.result = "Ok"
             THEN [cpu |-> [loaded.cpu EXCEPT !.pc = program.entry,
                                              !.is_running = TRUE],
                   result |-> "Ok"]
             ELSE loaded

\* a loader that looks at every segment's range before it copies any
load_program_checks_first(c, program) ==
    IF ~program.parses THEN [cpu |-> c, result |-> "Err"]
    ELSE IF ~program.is_64
         THEN [cpu |-> Panic(c, "Only 64-bit ELF files are supported"), result |-> "none"]
    ELSE IF \E i \in 1..Len(program.program_headers) :
                /\ program.program_headers[i].p_type = PT_LOAD
                /\ program.program_headers[i].p_vaddr + program.program_headers[i].p_memsz
                       > size(c.memory)
         THEN [cpu |-> c, result |-> "Err"]
    ELSE LET loaded == LoadSegments(c, program, 1)
         IN  IF loaded.result = "Ok"
             THEN [cpu |-> [loaded.cpu EXCEPT !.pc = program.entry], result |-> "Ok"]
             ELSE loaded

\* a loader that sets pc to the entry point before it copies the segments
load_program_sets_pc_first(c, program) ==
    IF ~program.parses THEN [cpu |-> c, result |-> "Err"]
    ELSE IF ~program.is_64
         THEN [cpu |-> Panic(c, "Only 64-bit ELF files are supported"), result |-> "none"]
    ELSE LoadSegments([c EXCEPT !.pc = program.entry], program, 1)

\* cpu.rs 67-101
load_program(c, program) ==
    IF ~program.parses THEN [cpu |-> c, result |-> "Err"]
    ELSE IF ~program.is_64
         THEN [cpu |-> Panic(c, "Only 64-bit ELF files are supported"), result |-> "none"]
    ELSE LET loaded == LoadSegments(c, program, 1)
         IN  IF loaded.result = "Ok"
             THEN [cpu |-> [loaded.cpu EXCEPT !.pc = program.entry],
                   result |-> "Ok"]
             ELSE loaded

-----------------------------------------------------------------------------
(* Inputs: instruction words and images. *)

\* u32::to_le_bytes of a word <<lo, hi>>
LeBytes(w) == <<w[1] % 256, w[1] \div 256, w[2] % 256, w[2] \div 256>>

\* I-type layout: opcode | rd << 7 | funct3 << 12 | rs1 << 15 | imm12 << 20
EncodeI(opcode, rd, funct3, rs1, imm12) ==
    <<opcode + rd * 128 + funct3 * 4096 + (rs1 % 2) * 32768, (rs1 \div 2) + imm12 * 16>>

\* U-type layout: opcode | rd << 7 | imm20 << 12
EncodeU(opcode, rd, imm20) ==
    <<opcode + rd * 128 + (imm20 % 16) * 4096, imm20 \div 16>>

LUI(rd, imm20) == EncodeU(55, rd, imm20)
ADDI(rd, rs1, imm12) == EncodeI(19, rd, 0, rs1, imm12)
ADDIW(rd, rs1, imm12) == EncodeI(27, rd, 0, rs1, imm12)
LB(rd, rs1, imm12) == EncodeI(3, rd, 0, rs1, imm12)
LW(rd, rs1, imm12) == EncodeI(3, rd, 2, rs1, imm12)
ECALL == EncodeI(115, 0, 0, 0, 0)
EBREAK == EncodeI(115, 0, 0, 0, 1)

\* a 12-bit immediate field holding the signed value k, -2048 <= k < 2048
Imm(k) == IF k < 0 THEN k + 4096 ELSE k

RECURSIVE WordsToBytes(_)
WordsToBytes(words) ==
    IF Len(words) = 0 THEN <<>>
    ELSE LeBytes(words[1]) \o WordsToBytes(SubSeq(words, 2, Len(words)))

\* The guest's data, placed right after the nine words of code:
\*   +0  "Hi"            +2  U+00E9 in UTF-8 (C3 A9)
\*   +4  0x7FFFFFFF      +8  0x80000000   (little-endian words)
DataBase == 9 * WORD_SIZE
Data == <<72, 105, 195, 169, 255, 255, 255, 127, 0, 0, 0, 128>>

\* the file's headers, which precede the segment's bytes in the file
FileHeader == <<127, 69, 76, 70>>

\* Words that prepare the syscall number register
SetupWords ==
    { ADDI(a7, 0, ECALL_WRITE), ADDI(a7, 0, ECALL_EXIT), ADDI(a7, 0, 1), ADDI(a7, 0, 10),
      ADDI(a7, 3, ECALL_EXIT),      \* a7 = 0xFFFFFFFF8000005D
      EBREAK }

\* Words under test
TestWords ==
    {   \* LUI
        LUI(1, 1), LUI(31, 1048575), LUI(6, 524288), LUI(7, 74565), LUI(0, 5),
        \* ADDI
        ADDI(4, 0, 3), ADDI(4, 0, Imm(-1)), ADDI(4, 1, Imm(-2048)), ADDI(4, 3, 2047),
        ADDI(4, 3, Imm(-1)), ADDI(0, 1, 5), ADDI(a0, 0, 42), ADDI(a0, 1, 0),
        \* ADDIW
        ADDIW(4, 1, 1), ADDIW(4, 3, Imm(-1)), ADDIW(4, 0, Imm(-2048)), ADDIW(4, 2, 5),
        ADDIW(0, 1, 1), ADDIW(a0, 3, 0),
        \* LOAD BYTE
        LB(4, 0, DataBase + 2), LB(4, a1, Imm(-1)), LB(4, a2, Imm(-2)), LB(4, a2, MemSize - 3),
        LB(4, 0, MemSize), LB(4, 3, 0), LB(4, 0, Imm(-1)), LB(0, 3, 0), LB(a0, a1, 3),
        \* LOAD WORD
        LW(4, 0, DataBase + 4), LW(4, a1, Imm(-4)), LW(4, a1, Imm(-6)), LW(4, a2, DataBase), LW(4, 0, MemSize - 3),
        LW(4, 0, Imm(-2)), LW(0, 0, MemSize), LW(a0, a1, 8), LW(a0, a1, 2),
        \* write ecall arguments
        ADDI(a2, 0, 4), ADDI(a2, 0, 0), ADDI(a1, 0, DataBase + 3), ADDI(a2, 0, MemSize),
        ADDI(a2, 0, MemSize - DataBase + 1), ADDI(a1, 3, 0), ADDI(a1, 0, MemSize),
        \* SYSTEM and undecodable words
        EBREAK, EncodeI(115, 1, 0, 0, 0), EncodeI(115, 0, 1, 0, 0), EncodeI(115, 0, 0, 0, 2),
        EncodeI(19, 4, 1, 1, 1), EncodeI(27, 4, 5, 1, 1), EncodeI(3, 4, 1, 0, 0),
        EncodeU(23, 1, 1) }

\* The code of a program: a prelude that fills x1, x2, x3, a1, a2; a setup
\* word; a word under test; an ecall; and one more instruction after it.
Code(setup, test) ==
    << LW(1, 0, DataBase + 4),       \* x1 = 0x7FFFFFFF
       LW(2, 0, DataBase + 8),       \* x2 = 0x80000000
       ADDIW(3, 2, 0),               \* x3 = 0xFFFFFFFF80000000
       ADDI(a1, 0, DataBase),        \* a1 = address of "Hi"
       ADDI(a2, 0, 2),               \* a2 = 2
       setup,
       test,
       ECALL,
       ADDI(5, 5, 1) >>

\* A PT_LOAD program header; p_offset counts from the end of the file's headers.
Segment(p_offset, p_vaddr, p_filesz, p_memsz) ==
    [ p_type |-> PT_LOAD, p_offset |-> Len(FileHeader) + p_offset, p_vaddr |-> p_vaddr,
      p_filesz |-> p_filesz, p_memsz |-> p_memsz ]

\* An ELF64 image: a PT_NOTE header, the given PT_LOAD headers, the bytes
\* that follow the file's headers, and the entry point (a u64).
Elf(segments, bytes, entry) ==
    [ parses |-> TRUE, is_64 |-> TRUE, entry |-> entry,
      program_headers |->
          << [p_type |-> PT_NOTE, p_offset |-> 0, p_vaddr |-> 0,
              p_filesz |-> Len(FileHeader), p_memsz |-> Len(FileHeader)] >> \o segments,
      bytes |-> FileHeader \o bytes ]

\* An ELF64 image with one loadable segment at p_vaddr holding `bytes`.
Image(bytes, p_vaddr, entry) ==
    Elf(<<Segment(0, p_vaddr, Len(bytes), Len(bytes))>>, bytes, U64FromNat(entry))

\* The words under test that write a syscall argument register (a0, a1, a2),
\* and one that writes none
ArgumentWords ==
    { t \in TestWords : Opcode(t) # 115 /\ Rd(t) \in {a0, a1, a2} } \cup { EBREAK }

\* Every word under test runs before an exit ecall; those that prepare a
\* syscall argument run before every kind of ecall.
ProgramImages ==
    { Image(WordsToBytes(Code(ADDI(a7, 0, ECALL_EXIT), t)) \o Data, 0, 0) : t \in TestWords }
        \cup { Image(WordsToBytes(Code(s, t)) \o Data, 0, 0) :
                    s \in SetupWords, t \in ArgumentWords }

\* A short patch of the first two words, a file that does not parse, and a
\* segment that does not fit the memory.
PatchImage == Image(WordsToBytes(<<ADDI(6, 0, 7), EBREAK>>), 0, 0)
GarbageImage == [Image(<<>>, 0, 0) EXCEPT !.parses = FALSE]
TooBigImage == Image(WordsToBytes(<<EBREAK>>), MemSize - 2, MemSize - 2)

\* Images whose entry point lies at or near the end of memory, or far beyond
\* it; the segment is empty, so the memory keeps what it held.
EntryImage(entry) == Elf(<<Segment(0, 0, 0, 0)>>, <<>>, entry)
HugeEntry == <<Limb - 2, Limb - 1, Limb - 1, Limb - 1>>
EntryImages ==
    { EntryImage(U64FromNat(e)) : e \in (MemSize - WORD_SIZE)..(MemSize + 1) }
        \cup { EntryImage(HugeEntry) }

\* An image whose one instruction is the last word of memory.
LastWordImage == Image(WordsToBytes(<<EBREAK>>), MemSize - WORD_SIZE, MemSize - WORD_SIZE)

\* Images that exercise the loader.  PatchBytes and TableBytes are the
\* contents of two segments.
PatchBytes == WordsToBytes(<<ADDI(6, 0, 7), EBREAK>>)
TableBytes == <<17, 34, 51, 68, 85, 102>>
ShiftedImage == Image(PatchBytes, 8, 8)
TwoSegmentImage ==
    Elf(<<Segment(0, 16, 8, 8), Segment(8, 2, 6, 6)>>, PatchBytes \o TableBytes, U64FromNat(16))
OverlapImage ==
    Elf(<<Segment(0, 0, 8, 8), Segment(8, 4, 6, 6)>>, PatchBytes \o TableBytes, U64Zero)
BssImage == Elf(<<Segment(0, 0, 8, 12)>>, PatchBytes, U64Zero)
TruncatedImage == Elf(<<Segment(0, 0, 12, 12)>>, PatchBytes, U64Zero)
Elf32Image == [Image(PatchBytes, 0, 4) EXCEPT !.is_64 = FALSE]
MiddleTooBigImage ==
    Elf(<<Segment(0, 4, 8, 8), Segment(8, MemSize - 2, 6, 6), Segment(8, 24, 6, 6)>>,
        PatchBytes \o TableBytes, U64FromNat(8))

LoaderImages ==
    { ShiftedImage, TwoSegmentImage, OverlapImage, BssImage, TruncatedImage, LastWordImage }

\* A program that writes two bytes from address -1: x5 = 0xFFFFFFA9 (the word
\* at DataBase + 3), a1 = x5 + 86 as a 32-bit sum, sign-extended.
WrapWriteImage ==
    Image(WordsToBytes(<< LW(5, 0, DataBase + 3), ADDIW(a1, 5, 86), ADDI(a2, 0, 2),
                          ADDI(a7, 0, ECALL_WRITE), ECALL,
                          EBREAK, EBREAK, EBREAK, EBREAK >>) \o Data, 0, 0)

\* the images loaded over a program that is loaded already
ReloadImages ==
    { PatchImage, MiddleTooBigImage, Elf32Image, EntryImage(U64FromNat(MemSize - 3)) }

Images ==
    ProgramImages \cup ReloadImages \cup EntryImages \cup LoaderImages
        \cup { GarbageImage, TooBigImage, WrapWriteImage }

-----------------------------------------------------------------------------
(* The state machine. *)

Cur == [ gprs |-> gprs, pc |-> pc, memory |-> memory, is_running |-> is_running,
         exit_code |-> exit_code, cpu_events |-> cpu_events, panicked |-> panicked ]

Become(c) ==
    /\ gprs' = c.gprs
    /\ pc' = c.pc
    /\ memory' = c.memory
    /\ is_running' = c.is_running
    /\ exit_code' = c.exit_code
    /\ cpu_events' = c.cpu_events
    /\ panicked' = c.panicked

\* the value of last_instruction when the last call fetched no word
NoInstruction == <<>>

\* the value of last_program before the first load_program call
NoProgram == [parses |-> FALSE]

\* the value of sign_extended before the first sign-extension call
NoCall == [width |-> 0]

\* what a call sent: the events of c that the channel receives
Sent(c) == SubSeq(c.cpu_events, Len(cpu_events) + 1, Len(c.cpu_events))

\* Cpu::new(MemSize), cpu.rs 50-65; an anonymous mapping starts zeroed
InitMachine ==
    /\ gprs = [r \in 0..31 |-> U64Zero]
    /\ pc = U64Zero
    /\ memory = [i \in 1..MemSize |-> 0]
    /\ is_running = TRUE
    /\ exit_code = 0
    /\ cpu_events = <<>>
    /\ panicked = NoPanic
    /\ overflow_checks \in BOOLEAN
    /\ loads = 0
    /\ load_result = "none"
    /\ last_op = "new"
    /\ last_instruction = NoInstruction
    /\ prev = [ gprs |-> [r \in 0..31 |-> U64Zero], pc |-> U64Zero,
                memory |-> [i \in 1..MemSize |-> 0], is_running |-> TRUE,
                exit_code |-> 0, cpu_events |-> <<>>, panicked |-> NoPanic ]
    /\ last_program = NoProgram
    /\ channel = <<>>
    /\ app_is_running = TRUE
    /\ text_buffer = <<>>
    /\ app_pc = "frame"
    /\ app_events = <<>>

\* monitored_allocator.rs 48-54
MonitoredAllocator_new(limit) == [limit |-> limit, allocated |-> 0]

Threads == 1..MaxThreads

\* a thread that is in no call and holds no block
Idle == [at |-> "idle", size |-> 0, held |-> 0, result |-> "none"]

InitAllocator ==
    /\ allocator = MonitoredAllocator_new(AllocLimit)
    /\ callers = [t \in Threads |-> Idle]

Init == InitMachine /\ sign_extended = NoCall /\ InitAllocator

\* a call of load_program
Load(program) ==
    /\ panicked = NoPanic
    /\ LET r == load_program(Cur, program)
       IN  /\ Become(r.cpu)
           /\ load_result' = r.result
    /\ loads' = loads + 1
    /\ last_op' = "load_program"
    /\ prev' = Cur
    /\ last_program' = program
    /\ UNCHANGED <<overflow_checks, last_instruction, channel, app_vars, sign_extended, alloc_vars>>

\* the first call loads a program, a later one one of ReloadImages
LoadProgram(program) ==
    /\ loads < MaxLoads
    /\ program \in (IF loads = 0 THEN Images ELSE ReloadImages)
    /\ Load(program)

\* one iteration of the driver loop, main.rs 58-61: `loop { cpu.tick(); }`
Tick ==
    /\ panicked = NoPanic
    /\ Become(tick(Cur))
    /\ last_op' = "tick"
    /\ last_instruction' =
           IF RangeInBounds(memory, pc, FetchEnd(Cur)) THEN Fetch(Cur) ELSE NoInstruction
    /\ prev' = Cur
    /\ channel' = channel \o Sent(tick(Cur))
    /\ UNCHANGED <<overflow_checks, loads, load_result, last_program, app_vars,
                   sign_extended, alloc_vars>>

Next == (\E program \in Images : LoadProgram(program)) \/ Tick

Spec == Init /\ [][Next]_vars

\* main.rs 27-61: one image is loaded, then the driver loop ticks without
\* pause until the process ends
LoadOnce == \E program \in Images : loads = 0 /\ Load(program)

NextRun == LoadOnce \/ Tick

\* main.rs 58-61: `loop { cpu.tick(); }` calls tick again as soon as the
\* previous call has returned, for as long as the process is alive.  Within
\* NextRun the steps that record a tick are exactly the Tick steps, so the
\* loop's progress is stated on that record.
DriverStep == panicked = NoPanic /\ last_op' = "tick" /\ prev' = Cur

SpecRun == Init /\ [][NextRun]_vars /\ WF_<<last_op, prev>>(DriverStep)

-----------------------------------------------------------------------------
(* The consumer of the events: App::run, src/src/app/mod.rs 31-72, running  *)
(* next to the emulation loop.  Its loop is followed position by position:  *)
(* "frame" is the top of the loop, "polling" the `for` over try_iter(), and *)
(* "draw" the rest of the iteration.  The match of App::run names the text  *)
(* variant DrawCharacter; cpu.rs sends Write, and the model hands the text  *)
(* of a Write to the same arm.                                              *)

\* Receiver::try_recv with newest-first delivery
TryRecv_newest_first(ch) ==
    [event |-> ch[Len(ch)], rest |-> SubSeq(ch, 1, Len(ch) - 1)]

\* one step of try_iter() on a channel that holds an event: the oldest
\* event in flight, and what stays in flight
TryRecv(ch) == [event |-> Head(ch), rest |-> Tail(ch)]

\* a `for` over try_iter() that ends after its first event
AfterRecv_one_event_per_poll == "draw"

\* where App::run stands after the body of the `for` over try_iter(): at
\* the next try_recv
AfterRecv == "polling"

\* the images run next to the consumer: two writes, then two more ecalls
\* with a7 = number (writes or exits)
ChatterCode(number) ==
    << ADDI(a1, 0, DataBase), ADDI(a2, 0, 2), ADDI(a7, 0, ECALL_WRITE), ECALL,
       ADDI(a2, 0, 4), ECALL, ADDI(a7, 0, number), ECALL, ECALL >>
AppImages ==
    { Image(WordsToBytes(ChatterCode(n)) \o Data, 0, 0) : n \in {ECALL_WRITE, ECALL_EXIT} }

LoadApp == \E program \in AppImages : loads = 0 /\ Load(program)

\* app/mod.rs 32-34: the top of the loop and the test of self.is_running
AppBegin ==
    /\ app_pc = "frame"
    /\ app_pc' = IF app_is_running THEN "polling" ELSE "draw"
    /\ last_op' = IF app_is_running THEN "app_begin_poll" ELSE "app_skip_poll"
    /\ UNCHANGED <<cpu_vars, overflow_checks, loads, load_result, last_instruction, prev,
                   last_program, channel, app_is_running, text_buffer, app_events,
                   sign_extended, alloc_vars>>

\* app/mod.rs 35-49: one try_recv of the `for` loop and the match on its event
AppPoll ==
    /\ app_pc = "polling"
    /\ IF channel # <<>>
       THEN LET event == TryRecv(channel).event
            IN  /\ channel' = TryRecv(channel).rest
                /\ app_events' = Append(app_events, event)
                /\ IF event.type = "Exit"
                   THEN /\ text_buffer' =
                              Append(text_buffer, <<"Exiting with code: ", event.exit_code>>)
                        /\ app_is_running' = FALSE
                   ELSE /\ text_buffer' = Append(text_buffer, event.text)
                        /\ app_is_running' = app_is_running
                /\ app_pc' = AfterRecv
                /\ last_op' = IF AfterRecv = "polling" THEN "app_recv" ELSE "app_end_poll"
       ELSE /\ app_pc' = "draw"
            /\ last_op' = "app_end_poll"
            /\ UNCHANGED <<channel, app_events, text_buffer, app_is_running>>
    /\ UNCHANGED <<cpu_vars, overflow_checks, loads, load_result, last_instruction, prev,
                   last_program, sign_extended, alloc_vars>>

\* app/mod.rs 52-70: draw, the quit key, is_quit_requested() and next_frame
AppEndFrame(quit_requested) ==
    /\ app_pc = "draw"
    /\ app_is_running' = IF quit_requested THEN FALSE ELSE app_is_running
    /\ app_pc' = "frame"
    /\ last_op' = "app_end_frame"
    /\ UNCHANGED <<cpu_vars, overflow_checks, loads, load_result, last_instruction, prev,
                   last_program, channel, text_buffer, app_events, sign_extended, alloc_vars>>

AppNext == AppBegin \/ AppPoll \/ (\E quit_requested \in BOOLEAN : AppEndFrame(quit_requested))

NextApp == LoadApp \/ Tick \/ AppNext

\* App::run never leaves its loop, so the consumer keeps taking steps
SpecApp == Init /\ [][NextApp]_vars /\ WF_vars(AppNext)

-----------------------------------------------------------------------------
(* The sign-extension functions of src/src/utils.rs as a specification of   *)
(* their own: the macro impl_sign_extend is instantiated for the source     *)
(* types u8, u16, u32 and u64.  A value of `width` bits is kept as the      *)
(* function from bit positions 0..width-1 to {0, 1}.                         *)

\* utils.rs 27-30: the widths of the four instances
Widths == {8, 16, 32, 64}

\* bit patterns of a width: all ones, all zeros, the largest positive, the
\* top bit alone, and four mixed ones
Patterns(width) ==
    { [i \in 0..(width - 1) |-> 1],
      [i \in 0..(width - 1) |-> 0],
      [i \in 0..(width - 1) |-> IF i = width - 1 THEN 0 ELSE 1],
      [i \in 0..(width - 1) |-> IF i = width - 1 THEN 1 ELSE 0],
      [i \in 0..(width - 1) |-> i % 2],
      [i \in 0..(width - 1) |-> (i + 1) % 2],
      [i \in 0..(width - 1) |-> IF i % 3 = 0 THEN 1 ELSE 0],
      [i \in 0..(width - 1) |-> (i \div 2) % 2] }

\* the calls: a width, a pattern of that width, and a size argument, the
\* sizes refused by the assertion included
Calls ==
    { [width |-> w, size |-> n, value |-> v, called |-> FALSE,
       result |-> [panicked |-> FALSE, bits |-> v]] :
          w \in Widths, n \in 0..65, v \in UNION { Patterns(u) : u \in Widths } }

InitSignExtend ==
    /\ InitMachine
    /\ InitAllocator
    /\ sign_extended \in
           { call \in Calls : /\ call.size <= call.width + 1
                               /\ call.value \in Patterns(call.width) }

\* one call of sign_extend_<source>_to_<target>(value, size)
SignExtend ==
    /\ ~sign_extended.called
    /\ sign_extended' =
           [sign_extended EXCEPT
               !.called = TRUE,
               !.result = impl_sign_extend(sign_extended.width, sign_extended.value,
                                           sign_extended.size)]
    /\ UNCHANGED <<cpu_vars, overflow_checks, loads, load_result, last_op, last_instruction,
                   prev, last_program, channel, app_vars, alloc_vars>>

SpecSignExtend == InitSignExtend /\ [][SignExtend]_vars

-----------------------------------------------------------------------------
(* The allocation budget (monitored_allocator.rs).  The allocator is a      *)
(* value shared by reference (allocate and deallocate take &self, and a     *)
(* static instance exists), so the calls of several threads interleave at   *)
(* its atomic operations.  Requests are small, so current + size does not   *)
(* reach the width of usize; the System allocator is taken to succeed.      *)

cpu_side == <<cpu_vars, overflow_checks, loads, load_result, last_op, last_instruction,
              prev, last_program, channel, app_vars, sign_extended>>

\* allocate, lines 17-29: the atomic load of the count and the test against
\* the limit; the call returns Err here or goes on to the fetch_add
AllocateCheck(t, layout_size) ==
    /\ callers[t].at = "idle"
    /\ callers[t].held = 0
    /\ LET current_allocated == allocator.allocated
       IN  callers' =
               [callers EXCEPT ![t] =
                   IF current_allocated + layout_size > allocator.limit
                   THEN [@ EXCEPT !.result = "Err"]
                   ELSE [@ EXCEPT !.at = "fetch_add", !.size = layout_size]]
    /\ UNCHANGED <<allocator, cpu_side>>

\* allocate, lines 31-35: the atomic fetch_add and the inner allocation
AllocateAdd(t) ==
    /\ callers[t].at = "fetch_add"
    /\ allocator' = [allocator EXCEPT !.allocated = @ + callers[t].size]
    /\ callers' = [callers EXCEPT ![t] = [at |-> "idle", size |-> 0,
                                          held |-> callers[t].size, result |-> "Ok"]]
    /\ UNCHANGED cpu_side

\* deallocate, lines 38-44, of the block the thread holds
Deallocate(t) ==
    /\ callers[t].at = "idle"
    /\ callers[t].held > 0
    /\ allocator' = [allocator EXCEPT !.allocated = @ - callers[t].held]
    /\ callers' = [callers EXCEPT ![t] = Idle]
    /\ UNCHANGED cpu_side

NextAllocator ==
    \E t \in Threads :
        \/ \E layout_size \in 1..MaxSize : AllocateCheck(t, layout_size)
        \/ AllocateAdd(t)
        \/ Deallocate(t)

SpecAllocator == Init /\ [][NextAllocator]_vars

-----------------------------------------------------------------------------
(* Vocabulary of the properties.  These restate the ISA's encodings and     *)
(* arithmetic independently of the handlers above.                          *)

\* the last call was a tick that fetched a word
Fetched == last_op = "tick" /\ last_instruction # NoInstruction

\* the last call was a tick that ran to its end
Completed == Fetched /\ panicked = NoPanic

IsLui(w) == Opcode(w) = 55
IsAddi(w) == Opcode(w) = 19 /\ Funct3(w) = 0
IsAddiw(w) == Opcode(w) = 27 /\ Funct3(w) = 0
IsLoadByte(w) == Opcode(w) = 3 /\ Funct3(w) = 0
IsLoadWord(w) == Opcode(w) = 3 /\ Funct3(w) = 2
IsEcall(w) == Opcode(w) = 115 /\ Rd(w) = 0 /\ Funct3(w) = 0 /\ Imm12(w) = 0

WritesRd(w) == IsLui(w) \/ IsAddi(w) \/ IsAddiw(w) \/ IsLoadByte(w) \/ IsLoadWord(w)

\* the 12-bit field read as a two's-complement number
SignExtend12(imm) == IF imm >= 2048 THEN imm - 4096 ELSE imm

\* v + k modulo 2^64 for a small integer k, -2048 <= k < 2048
AddSigned(v, k) ==
    IF k >= 0 THEN WrapAdd64(v, <<k, 0, 0, 0>>)
    ELSE WrapAdd64(v, <<Limb + k, Limb - 1, Limb - 1, Limb - 1>>)

\* the low 32 bits of v read as a signed number
SignedLow32(v) ==
    LET b == ToBits(v)
        low31 == BitsToNat(b, 0, 31)
    IN  IF b[31] = 1 THEN (low31 - 2 ^ 30) - 2 ^ 30 ELSE low31

\* the 64-bit sign extension of the low 32 bits of v
SignExtendWord(v) ==
    LET b == ToBits(v)
    IN  FromBits([i \in 0..63 |-> IF i < 32 THEN b[i] ELSE b[31]])

\* the bytes mem[p .. p + n) for naturals p, n
Bytes(mem, p, n) == [i \in 1..n |-> mem[p + i]]

\* the effective address of the load just executed, and whether it is an
\* offset of memory at which `width` bytes can be read
LoadAddress == AddSigned(prev.gprs[Rs1(last_instruction)], SignExtend12(Imm12(last_instruction)))
LoadInRange(width) == IsSmall(LoadAddress) /\ NatOf(LoadAddress) + width <= MemSize

-----------------------------------------------------------------------------
(* Properties. *)

\* C1: in every state reachable by load_program and tick calls x0 holds 0,
\* and a completed tick of LUI, ADDI, ADDIW, LOAD BYTE or LOAD WORD whose rd
\* field is 0 leaves all 32 registers unchanged.
C1_ZeroRegister ==
    /\ gprs[0] = U64Zero
    /\ (Fetched /\ WritesRd(last_instruction) /\ Rd(last_instruction) = 0)
           => (panicked = NoPanic /\ gprs = prev.gprs)

\* a tick of each of the five instructions with rd = 0 has run while other
\* registers held data; the load among them names an address outside memory
C1_Witness ==
    /\ Completed
    /\ IsLoadByte(last_instruction)
    /\ Rd(last_instruction) = 0
    /\ ~LoadInRange(1)
    /\ prev.gprs[3] # U64Zero

\* C2 (as claimed): once is_running is false no tick changes pc, the
\* registers or the events, because the driver loop stops ticking.
C2_HaltedIsFinal ==
    (last_op = "tick" /\ ~prev.is_running)
        => (pc = prev.pc /\ gprs = prev.gprs /\ cpu_events = prev.cpu_events)

\* C3: an ecall with a7 = 93 completes, clears is_running, stores the low 32
\* bits of a0 as a signed exit_code, appends exactly one Exit event carrying
\* it, and changes no register.
C3_ExitEcall ==
    (Fetched /\ IsEcall(last_instruction) /\ prev.gprs[a7] = U64FromNat(93))
        => /\ panicked = NoPanic
           /\ ~is_running
           /\ exit_code = SignedLow32(prev.gprs[a0])
           /\ cpu_events = Append(prev.cpu_events,
                                  [type |-> "Exit", exit_code |-> SignedLow32(prev.gprs[a0])])
           /\ gprs = prev.gprs

\* an exit ecall has run on a running CPU with an a0 whose low word is negative
C3_Witness ==
    /\ Completed /\ IsEcall(last_instruction) /\ prev.gprs[a7] = U64FromNat(93)
    /\ prev.is_running
    /\ exit_code < 0

\* C4: an ecall with a7 = 64 whose buffer [a1, a1 + a2) lies in memory and is
\* valid UTF-8 completes, appends exactly one Write event holding those bytes,
\* changes nothing else, and emits the same event whatever a0 holds.
C4_WriteEcall ==
    (/\ Fetched /\ IsEcall(last_instruction) /\ prev.gprs[a7] = U64FromNat(64)
     /\ IsSmall(prev.gprs[a1]) /\ IsSmall(prev.gprs[a2])
     /\ NatOf(prev.gprs[a1]) + NatOf(prev.gprs[a2]) <= MemSize
     /\ IsValidUtf8(Bytes(prev.memory, NatOf(prev.gprs[a1]), NatOf(prev.gprs[a2]))))
        => /\ panicked = NoPanic
           /\ cpu_events = Append(prev.cpu_events,
                  [type |-> "Write",
                   text |-> Bytes(prev.memory, NatOf(prev.gprs[a1]), NatOf(prev.gprs[a2]))])
           /\ is_running = prev.is_running
           /\ exit_code = prev.exit_code
           /\ gprs = prev.gprs
           /\ memory = prev.memory
           /\ \A fd \in {U64Zero, U64FromNat(1), U64FromNat(42), <<65535, 65535, 65535, 65535>>} :
                  tick([prev EXCEPT !.gprs[a0] = fd]).cpu_events = cpu_events

\* a write ecall has emitted "Hi" with a non-zero a0
C4_Witness ==
    /\ Completed /\ IsEcall(last_instruction) /\ prev.gprs[a7] = U64FromNat(64)
    /\ prev.gprs[a0] # U64Zero
    /\ Len(cpu_events) = 1
    /\ cpu_events[1] = [type |-> "Write", text |-> <<72, 105>>]

\* whether an Exit event has been emitted
Exited == \E i \in 1..Len(cpu_events) : cpu_events[i].type = "Exit"

\* C5: is_running starts true, stays true until an exit ecall executes,
\* becomes false only at an exit ecall, and is never true again.
C5_RunState ==
    /\ last_op = "new" => is_running
    /\ ~prev.is_running => ~is_running
    /\ (prev.is_running /\ ~is_running)
           => (Completed /\ IsEcall(last_instruction) /\ prev.gprs[a7] = U64FromNat(93))
    /\ is_running <=> ~Exited

\* a second exit ecall has run on a halted CPU after a program was loaded again
C5_Witness ==
    /\ Completed /\ IsEcall(last_instruction) /\ prev.gprs[a7] = U64FromNat(93)
    /\ ~prev.is_running
    /\ loads = 2

\* bits 12-31 of the word, shifted left by 12
UpperImmediate(w) == <<(Field(w, 12, 20) % 16) * 4096, Field(w, 12, 20) \div 16, 0, 0>>

\* C6 (as claimed): a tick of LUI with rd # 0 leaves rd = (bits 12-31) << 12.
C6_LuiLoadsUpperImmediate ==
    (Fetched /\ IsLui(last_instruction) /\ Rd(last_instruction) # 0)
        => (panicked = NoPanic
            /\ gprs[Rd(last_instruction)] = UpperImmediate(last_instruction))

\* C7 (as claimed): a tick of ADDI with rd # 0 completes and leaves
\* rd = rs1 + sign_extend_12(imm) modulo 2^64.
C7_AddiAddsSignedImmediate ==
    (Fetched /\ IsAddi(last_instruction) /\ Rd(last_instruction) # 0)
        => (panicked = NoPanic
            /\ gprs[Rd(last_instruction)] =
                   AddSigned(prev.gprs[Rs1(last_instruction)],
                             SignExtend12(Imm12(last_instruction))))

\* C8 (as claimed): a tick of ADDIW with rd # 0 completes and leaves rd = the
\* sign extension of the low 32 bits of rs1 + sign_extend_12(imm).
C8_AddiwAddsWord ==
    (Fetched /\ IsAddiw(last_instruction) /\ Rd(last_instruction) # 0)
        => (panicked = NoPanic
            /\ gprs[Rd(last_instruction)] =
                   SignExtendWord(AddSigned(prev.gprs[Rs1(last_instruction)],
                                            SignExtend12(Imm12(last_instruction)))))

\* C9: a tick of LOAD BYTE with rd # 0 and an effective address inside memory
\* completes, leaves rd = that byte zero-extended, and leaves memory unchanged.
C9_LoadByte ==
    (Fetched /\ IsLoadByte(last_instruction) /\ Rd(last_instruction) # 0 /\ LoadInRange(1))
        => /\ panicked = NoPanic
           /\ gprs[Rd(last_instruction)] = <<prev.memory[NatOf(LoadAddress) + 1], 0, 0, 0>>
           /\ memory = prev.memory

\* a byte with its top bit set has been loaded through a negative offset
C9_Witness ==
    /\ Completed /\ IsLoadByte(last_instruction) /\ Rd(last_instruction) # 0
    /\ Imm12(last_instruction) >= 2048
    /\ LoadInRange(1)
    /\ prev.memory[NatOf(LoadAddress) + 1] >= 128

\* C10: a tick of LOAD WORD with rd # 0 and [a, a + 4) inside memory completes
\* and leaves rd = the little-endian word at a, zero-extended.
C10_LoadWord ==
    (Fetched /\ IsLoadWord(last_instruction) /\ Rd(last_instruction) # 0 /\ LoadInRange(4))
        => /\ panicked = NoPanic
           /\ LET a == NatOf(LoadAddress)
              IN  gprs[Rd(last_instruction)] =
                      << prev.memory[a + 1] + 256 * prev.memory[a + 2],
                         prev.memory[a + 3] + 256 * prev.memory[a + 4], 0, 0 >>

\* a word with bit 31 set has been loaded through a negative offset from an
\* address that is no multiple of 4
C10_Witness ==
    /\ Completed /\ IsLoadWord(last_instruction) /\ Rd(last_instruction) # 0
    /\ Imm12(last_instruction) >= 2048
    /\ LoadInRange(4)
    /\ NatOf(LoadAddress) % 4 # 0
    /\ prev.memory[NatOf(LoadAddress) + 4] >= 128

\* the pc before the last call left no room for a word: pc + 4 > size
PcOutOfBounds == ~(IsSmall(prev.pc) /\ NatOf(prev.pc) + WORD_SIZE <= MemSize)

\* the last call changed nothing of the Cpu but, possibly, ended the process
CpuUnchanged ==
    /\ gprs = prev.gprs
    /\ pc = prev.pc
    /\ memory = prev.memory
    /\ is_running = prev.is_running
    /\ exit_code = prev.exit_code
    /\ cpu_events = prev.cpu_events

\* C11: a tick with pc + 4 > size ends the process before any byte is
\* fetched and leaves registers, pc, memory, run state and events as they
\* were; the panic is "Instruction address out of bounds" whenever pc + 4
\* is representable in 64 bits (beyond that the address arithmetic itself
\* overflows, or the wrapped range is refused by the slice index).
C11_FetchOutOfBounds ==
    (last_op = "tick" /\ PcOutOfBounds)
        => /\ panicked # NoPanic
           /\ ~CarryOut64(prev.pc, U64FromNat(WORD_SIZE))
                  => panicked = "Instruction address out of bounds"
           /\ last_instruction = NoInstruction
           /\ CpuUnchanged

\* a tick at pc = size - 3 has ended the process while registers held data
C11_Witness ==
    /\ last_op = "tick"
    /\ prev.pc = U64FromNat(MemSize - 3)
    /\ panicked = "Instruction address out of bounds"
    /\ prev.gprs[1] # U64Zero
    /\ CpuUnchanged

\* C12: at every moment the events the consumer has matched, followed by the
\* events in flight, are the events sent, in the order sent; so what the
\* consumer has processed is a prefix of what was emitted.
C12_EventsInOrder ==
    /\ app_events \o channel = cpu_events
    /\ Len(app_events) <= Len(cpu_events)
    /\ \A i \in 1..Len(app_events) : app_events[i] = cpu_events[i]

\* the consumer has matched three events, two of them drained in one poll,
\* while a different event is still in flight
C12_Witness ==
    /\ Len(app_events) = 3
    /\ app_events[1] # app_events[2]
    /\ channel # <<>>
    /\ channel[1].type = "Exit"
    /\ prev.cpu_events # cpu_events

-----------------------------------------------------------------------------
(* Vocabulary of the loader's properties, over the image of the last call. *)

Headers == last_program.program_headers
Loadable == { i \in 1..Len(Headers) : Headers[i].p_type = PT_LOAD }

\* the image parsed as a 64-bit ELF
Accepted == last_program.parses /\ last_program.is_64

\* segment i names bytes of the file, has equal sizes, fits in memory
InFile(i) == Headers[i].p_offset + Headers[i].p_filesz <= Len(last_program.bytes)
EqualSizes(i) == Headers[i].p_filesz = Headers[i].p_memsz
Fits(i) == Headers[i].p_vaddr + Headers[i].p_memsz <= MemSize

\* address a (an offset of memory) lies in the destination range of segment i
Covers(i, a) == Headers[i].p_vaddr <= a /\ a < Headers[i].p_vaddr + Headers[i].p_memsz

\* the byte of the file that segment i places at address a
FileByte(i, a) == last_program.bytes[Headers[i].p_offset + (a - Headers[i].p_vaddr) + 1]

\* the last call was load_program on an image whose loadable segments all
\* lie in the file, have p_filesz = p_memsz and fit in memory
LoadedWellFormed ==
    /\ last_op = "load_program"
    /\ Accepted
    /\ \A i \in Loadable : InFile(i) /\ EqualSizes(i) /\ Fits(i)

\* C14 (as claimed): such a load succeeds, every loadable segment's
\* destination range holds the segment's file bytes, and pc = entry.
C14_LoadCopiesSegments ==
    LoadedWellFormed
        => /\ panicked = NoPanic
           /\ load_result = "Ok"
           /\ pc = last_program.entry
           /\ \A i \in Loadable : \A a \in 0..(MemSize - 1) :
                  Covers(i, a) => memory[a + 1] = FileByte(i, a)

\* C14 (amended): such a load succeeds, pc = entry, and every address of a
\* loadable segment's destination range that no later loadable segment
\* covers holds the segment's file byte; where destination ranges overlap,
\* the segment later in program-header order wins.
C14_LoadCopiesSegmentsInOrder ==
    LoadedWellFormed
        => /\ panicked = NoPanic
           /\ load_result = "Ok"
           /\ pc = last_program.entry
           /\ \A i \in Loadable : \A a \in 0..(MemSize - 1) :
                  (Covers(i, a) /\ \A j \in Loadable : j > i => ~Covers(j, a))
                      => memory[a + 1] = FileByte(i, a)

\* an image with two disjoint segments, the first at the higher address, has
\* been loaded and pc is its entry point, which is not 0
C14_Witness ==
    /\ LoadedWellFormed
    /\ Cardinality(Loadable) = 2
    /\ \A i \in Loadable : Headers[i].p_vaddr > 0 /\ Headers[i].p_memsz > 0
    /\ \A a \in 0..(MemSize - 1) : ~(\A i \in Loadable : Covers(i, a))
    /\ load_result = "Ok"
    /\ pc = last_program.entry
    /\ pc # U64Zero

\* C15 (as claimed): a load whose loadable segments lie in the file and fit
\* in memory, one of them with p_filesz < p_memsz, succeeds; the first
\* p_filesz bytes of each destination range hold the file bytes and the rest
\* of the range is zero.
C15_ZeroFillsTail ==
    ( /\ last_op = "load_program"
      /\ Accepted
      /\ \A i \in Loadable :
             InFile(i) /\ Fits(i) /\ Headers[i].p_filesz <= Headers[i].p_memsz
      /\ \E i \in Loadable : Headers[i].p_filesz < Headers[i].p_memsz )
        => /\ panicked = NoPanic
           /\ load_result = "Ok"
           /\ \A i \in Loadable : \A a \in 0..(MemSize - 1) :
                  Covers(i, a) =>
                      memory[a + 1] =
                          IF a < Headers[i].p_vaddr + Headers[i].p_filesz
                          THEN FileByte(i, a) ELSE 0

\* the first loadable segment, in program-header order, that does not fit
Misfits == { i \in Loadable : ~Fits(i) }
FirstMisfit == CHOOSE i \in Misfits : \A j \in Misfits : i <= j

\* the loadable segments before header m that cover address a, and the last
\* of a non-empty set of headers
CopiedBefore(m, a) == { j \in Loadable : j < m /\ Covers(j, a) }
LastOf(S) == CHOOSE j \in S : \A k \in S : k <= j

\* the last call was load_program on an accepted image one of whose loadable
\* segments does not fit, the segments before it being copyable
LoadedMisfit ==
    /\ last_op = "load_program"
    /\ Accepted
    /\ Misfits # {}
    /\ \A j \in Loadable : j < FirstMisfit => InFile(j) /\ EqualSizes(j)

LoadFailed ==
    /\ last_op = "load_program"
    /\ \/ ~last_program.parses
       \/ ~last_program.is_64
       \/ LoadedMisfit

\* C17 (as claimed): whenever load_program fails, memory and pc are exactly
\* as they were before the call.
C17_FailedLoadChangesNothing ==
    LoadFailed => (memory = prev.memory /\ pc = prev.pc)

\* C17 (amended): whenever load_program fails, pc, the registers, the run
\* state and the events are as before the call, and so is every byte of
\* memory outside the destination ranges of the loadable segments that
\* precede the first misfit; for an image that does not parse, is not
\* 64-bit, or whose first loadable segment does not fit, that is all of
\* memory.
C17_FailedLoadKeepsPc ==
    LoadFailed
        => /\ load_result = "Err" \/ panicked = "Only 64-bit ELF files are supported"
           /\ pc = prev.pc
           /\ gprs = prev.gprs
           /\ is_running = prev.is_running
           /\ exit_code = prev.exit_code
           /\ cpu_events = prev.cpu_events
           /\ \A a \in 0..(MemSize - 1) :
                  (~Accepted \/ CopiedBefore(FirstMisfit, a) = {})
                      => memory[a + 1] = prev.memory[a + 1]

\* a non-64-bit image with a non-zero entry point has been refused while a
\* program was loaded and running
C17_Witness ==
    /\ LoadFailed
    /\ last_program.parses
    /\ ~last_program.is_64
    /\ last_program.entry # prev.pc
    /\ prev.memory # [i \in 1..MemSize |-> 0]
    /\ memory = prev.memory

SignedOf(b, n) ==
    IF n = 1 THEN 0 - b[0]
    ELSE (BitsToNat(b, 0, n - 1) - b[n - 1] * 2 ^ (n - 2)) - b[n - 1] * 2 ^ (n - 2)

\* C19: a sign-extension call with 1 <= size <= width does not fail; bits
\* 0..size-1 of its result are those of the input and all higher bits equal
\* input bit size-1, so the result depends on the low `size` bits only and
\* is their value as a signed size-bit number (compared as numbers for the
\* widths up to 32; the 64-bit instance used by the instruction handlers
\* computes the same bits).  With size = width: all ones gives -1, all
\* zeros 0, 0111..1 the largest and 1000..0 the smallest number.
C19_SignExtension ==
    LET width == sign_extended.width
        n == sign_extended.size
        value == sign_extended.value
        result == sign_extended.result
    IN  (width # 0 /\ sign_extended.called /\ n >= 1 /\ n <= width)
            => /\ ~result.panicked
               /\ \A i \in 0..(width - 1) :
                      result.bits[i] = IF i < n THEN value[i] ELSE value[n - 1]
               /\ width <= 32 => SignedOf(result.bits, width) = SignedOf(value, n)
               /\ width = 64 =>
                      ToBits(sign_extend_u64_to_i64(FromBits(value), n)) = result.bits
               /\ n = width => result.bits = value

\* the 16-bit instance has extended a 12-bit field whose top bit is set and
\* above which the input holds a zero: the result is negative
C19_Witness ==
    /\ sign_extended.width = 16
    /\ sign_extended.called
    /\ sign_extended.size = 12
    /\ sign_extended.value[11] = 1
    /\ sign_extended.value[15] = 0
    /\ sign_extended.result.bits[15] = 1
    /\ SignedOf(sign_extended.result.bits, 16) = 0 - 1

\* C20: a tick that completes leaves pc = old pc + 4, whatever the word it
\* executed (a register write, its rd = 0 form, ebreak, a write ecall, an
\* exit ecall); a tick that ends the process leaves pc as it was.
C20_PcAdvancesByFour ==
    (last_op = "tick")
        => IF panicked = NoPanic
           THEN /\ Fetched
                /\ pc = WrapAdd64(prev.pc, U64FromNat(WORD_SIZE))
                /\ ~CarryOut64(prev.pc, U64FromNat(WORD_SIZE))
           ELSE pc = prev.pc

\* an exit ecall at a pc other than 0 has completed and pc has moved on
C20_Witness ==
    /\ Completed
    /\ IsEcall(last_instruction)
    /\ prev.is_running
    /\ ~is_running
    /\ prev.pc # U64Zero
    /\ pc = WrapAdd64(prev.pc, U64FromNat(WORD_SIZE))

\* the encodings the decoder does not model
Unmodelled(w) ==
    \/ Opcode(w) \notin {55, 19, 27, 3, 115}
    \/ Opcode(w) \in {19, 27} /\ Funct3(w) # 0
    \/ Opcode(w) = 3 /\ Funct3(w) \notin {0, 2}
    \/ Opcode(w) = 115 /\ (Rd(w) # 0 \/ Funct3(w) # 0 \/ Imm12(w) \notin {0, 1})

\* the panics raised by the decoder
DecoderPanics ==
    { "Unimplemented opcode", "Unimplemented I-Type instruction",
      "Unimplemented other I-Type instruction", "Unimplemented OP32 instruction",
      "Unimplemented SYSTEM instruction",
      "System instructions should not write to a destination register",
      "System instructions should have funct3 = 0b000" }

IsEbreak(w) == Opcode(w) = 115 /\ Rd(w) = 0 /\ Funct3(w) = 0 /\ Imm12(w) = 1

\* C21: a tick that fetches an encoding the decoder does not model ends the
\* process with registers, pc, memory, run state and events unchanged; a
\* SYSTEM word with rd = 0 and funct3 = 0 is not refused by the decoder:
\* with immediate 0 it is handled as an ecall (the outcome is decided by a7:
\* exit for 93, write for 64, "Unimplemented ecall" otherwise), with
\* immediate 1 as ebreak, which completes.
C21_DecoderRejectsUnmodelled ==
    /\ (Fetched /\ Unmodelled(last_instruction))
           => (panicked \in DecoderPanics /\ CpuUnchanged)
    /\ (Fetched /\ ~Unmodelled(last_instruction)) => panicked \notin DecoderPanics
    /\ (Fetched /\ IsEcall(last_instruction))
           => /\ prev.gprs[a7] = U64FromNat(ECALL_EXIT)
                     => (panicked = NoPanic /\ ~is_running)
              /\ prev.gprs[a7] = U64FromNat(ECALL_WRITE)
                     => (panicked = NoPanic => Len(cpu_events) = Len(prev.cpu_events) + 1)
              /\ prev.gprs[a7] \notin {U64FromNat(ECALL_EXIT), U64FromNat(ECALL_WRITE)}
                     => panicked = "Unimplemented ecall"
    /\ (Fetched /\ IsEbreak(last_instruction)) => panicked = NoPanic

\* a SYSTEM word with immediate 2 has ended the process while registers
\* held data
C21_Witness ==
    /\ Fetched
    /\ Opcode(last_instruction) = 115
    /\ Rd(last_instruction) = 0
    /\ Funct3(last_instruction) = 0
    /\ Imm12(last_instruction) = 2
    /\ panicked = "Unimplemented SYSTEM instruction"
    /\ prev.gprs[1] # U64Zero
    /\ CpuUnchanged

\* C22: an ecall executed with a7 other than 64 and 93 ends the process with
\* "Unimplemented ecall": no event is emitted and is_running, exit_code, the
\* registers, pc and memory are as before.
C22_UnknownSyscallIsFatal ==
    ( /\ Fetched
      /\ IsEcall(last_instruction)
      /\ prev.gprs[a7] \notin {U64FromNat(ECALL_WRITE), U64FromNat(ECALL_EXIT)} )
        => (panicked = "Unimplemented ecall" /\ CpuUnchanged)

\* an ecall with a7 = 10, the earlier ABI's exit, and a0 = 42 has ended the
\* process
C22_Witness ==
    /\ Fetched
    /\ IsEcall(last_instruction)
    /\ prev.gprs[a7] = U64FromNat(10)
    /\ prev.gprs[a0] = U64FromNat(42)
    /\ prev.is_running
    /\ panicked = "Unimplemented ecall"
    /\ CpuUnchanged

\* the buffer [a1, a1 + a2) of the write ecall just executed lies in memory
WriteInRange ==
    /\ IsSmall(prev.gprs[a1])
    /\ IsSmall(prev.gprs[a2])
    /\ NatOf(prev.gprs[a1]) + NatOf(prev.gprs[a2]) <= MemSize

\* C23: a write ecall whose buffer [a1, a1 + a2) is not entirely inside
\* memory, or whose bytes are not well-formed UTF-8, ends the process: no
\* event is emitted, and is_running, the registers, pc and memory are as
\* before.
C23_BadWriteIsFatal ==
    ( /\ Fetched
      /\ IsEcall(last_instruction)
      /\ prev.gprs[a7] = U64FromNat(ECALL_WRITE)
      /\ \/ ~WriteInRange
         \/ ~IsValidUtf8(Bytes(prev.memory, NatOf(prev.gprs[a1]), NatOf(prev.gprs[a2]))) )
        => (panicked # NoPanic /\ CpuUnchanged)

\* a write ecall whose buffer begins with well-formed text and ends one
\* byte past the memory has ended the process
C23_Witness ==
    /\ Fetched
    /\ IsEcall(last_instruction)
    /\ prev.gprs[a7] = U64FromNat(ECALL_WRITE)
    /\ IsSmall(prev.gprs[a1])
    /\ IsSmall(prev.gprs[a2])
    /\ NatOf(prev.gprs[a1]) + NatOf(prev.gprs[a2]) = MemSize + 1
    /\ prev.memory[NatOf(prev.gprs[a1]) + 1] < 128
    /\ panicked = "slice index out of range"
    /\ CpuUnchanged

\* C24: a tick of ebreak completes and changes nothing but pc, which
\* advances by 4: registers, memory, is_running, exit_code and the events
\* are as before.
C24_EbreakChangesOnlyPc ==
    (Fetched /\ IsEbreak(last_instruction))
        => /\ panicked = NoPanic
           /\ pc = WrapAdd64(prev.pc, U64FromNat(WORD_SIZE))
           /\ gprs = prev.gprs
           /\ memory = prev.memory
           /\ is_running = prev.is_running
           /\ exit_code = prev.exit_code
           /\ cpu_events = prev.cpu_events

\* an ebreak has completed on a running CPU whose registers held data
C24_Witness ==
    /\ Completed
    /\ IsEbreak(last_instruction)
    /\ prev.is_running
    /\ is_running
    /\ prev.gprs[1] # U64Zero
    /\ prev.gprs[a7] # U64Zero
    /\ pc # prev.pc

\* C25: every completed tick moves pc up by exactly 4 to an offset no
\* greater than the memory size, so the ticks after a load are bounded; and
\* after a successful load the driver loop always comes to an end: every run
\* reaches a fatal condition -- at the latest the fetch past the end of
\* memory -- whether or not an exit ecall was executed on the way.  No run
\* goes on forever.
C25_LoopStops ==
    /\ [](Completed => /\ pc = WrapAdd64(prev.pc, U64FromNat(WORD_SIZE))
                        /\ IsSmall(prev.pc)
                        /\ IsSmall(pc)
                        /\ NatOf(pc) = NatOf(prev.pc) + WORD_SIZE
                        /\ NatOf(pc) <= MemSize)
    /\ (last_op = "load_program" /\ load_result = "Ok")
           ~> (panicked # NoPanic \/ ~is_running)
    /\ (last_op = "load_program" /\ load_result = "Ok") ~> (panicked # NoPanic)

\* a run that executed an exit ecall has come to its end
C25_Witness ==
    /\ load_result = "Ok"
    /\ last_op = "tick"
    /\ cpu_events # <<>>
    /\ ~is_running
    /\ panicked # NoPanic

\* the last call was a tick that completed an ecall
EcallCompleted == Completed /\ IsEcall(last_instruction)

\* C26: no tick modifies guest memory; a completed tick of LUI, ADDI,
\* ADDIW, LOAD BYTE or LOAD WORD changes at most register rd and pc (the run
\* state, the exit code and the events are as before); and events come from
\* ecalls only: every call leaves the events emitted so far in place, a
\* completed write or exit ecall appends exactly one event of its kind, and
\* no other call -- a load_program, another instruction, a tick that ends
\* the process -- appends any.  So the number of events always equals the
\* number of write and exit ecalls completed so far.
C26_TicksTouchNoMemory ==
    /\ last_op = "tick" => memory = prev.memory
    /\ (Completed /\ WritesRd(last_instruction))
           => /\ \A r \in 0..31 : r # Rd(last_instruction) => gprs[r] = prev.gprs[r]
              /\ is_running = prev.is_running
              /\ exit_code = prev.exit_code
              /\ cpu_events = prev.cpu_events
    /\ last_op = "new" => cpu_events = <<>>
    /\ Len(cpu_events) = Len(prev.cpu_events) + (IF EcallCompleted THEN 1 ELSE 0)
    /\ SubSeq(cpu_events, 1, Len(prev.cpu_events)) = prev.cpu_events
    /\ EcallCompleted
           => /\ prev.gprs[a7] \in {U64FromNat(ECALL_WRITE), U64FromNat(ECALL_EXIT)}
              /\ cpu_events[Len(cpu_events)].type =
                     (IF prev.gprs[a7] = U64FromNat(ECALL_WRITE) THEN "Write" ELSE "Exit")

\* after a write ecall has emitted its event an ADDI has changed its rd
C26_Witness ==
    /\ Completed
    /\ IsAddi(last_instruction)
    /\ gprs[Rd(last_instruction)] # prev.gprs[Rd(last_instruction)]
    /\ Len(cpu_events) = 1
    /\ cpu_events[1].type = "Write"
    /\ memory # [i \in 1..MemSize |-> 0]

\* C27: the allocated count of a MonitoredAllocator never exceeds its limit,
\* also when several threads allocate and deallocate concurrently.
C27_AllocatedWithinLimit == allocator.allocated <= allocator.limit

====
